---- MODULE Spec2Model ----
(***************************************************************************)
(* StudySprint kanban (src/app.py): the in-memory SUBJECTS store, the      *)
(* priority_score and subject_completion functions, and the two request    *)
(* handlers dashboard() and subject(subject_id).                           *)
(*                                                                         *)
(* Python floats are IEEE-754 binary64 values.  They are modelled exactly: *)
(* a float is a sign, a 53-bit significand and a binary exponent, and each *)
(* arithmetic operation rounds its exact result to nearest, ties to even.  *)
(* Significands do not fit TLC's integers, so they are little-endian       *)
(* sequences of limbs in base 2^LimbBits.                                  *)
(***************************************************************************)
EXTENDS Integers, Sequences, FiniteSets

\* ------------------------------------------------------------------------
\* Natural numbers of arbitrary size: little-endian limb sequences
\* ------------------------------------------------------------------------

LimbBits == 14

Base == 2 ^ LimbBits

\* Significand width of a Python float (IEEE-754 binary64).
Precision == 53

\* Extra quotient bits produced by a division before rounding.
DivScale == 84

Max(a, b) == IF a >= b THEN a ELSE b

Limb(a, i) == IF i \in 1..Len(a) THEN a[i] ELSE 0

RECURSIVE Trim(_)
Trim(a) ==
    IF a = <<>> THEN <<>>
    ELSE IF a[Len(a)] = 0 THEN Trim(SubSeq(a, 1, Len(a) - 1))
    ELSE a

\* Carry propagation over columns that may exceed a limb (or be negative).
RECURSIVE Carry(_, _)
Carry(w, c) ==
    IF w = <<>>
    THEN IF c <= 0 THEN <<>> ELSE <<c % Base>> \o Carry(<<>>, c \div Base)
    ELSE LET t == Head(w) + c
         IN  <<t % Base>> \o Carry(Tail(w), t \div Base)

BigOf(n) == Trim(Carry(<<n>>, 0))

RECURSIVE BigToInt(_)
BigToInt(a) == IF a = <<>> THEN 0 ELSE Head(a) + Base * BigToInt(Tail(a))

RECURSIVE SmallBitLen(_)
SmallBitLen(n) == IF n = 0 THEN 0 ELSE 1 + SmallBitLen(n \div 2)

BitLen(a) ==
    IF a = <<>> THEN 0
    ELSE LimbBits * (Len(a) - 1) + SmallBitLen(a[Len(a)])

BigAdd(a, b) ==
    Trim(Carry([i \in 1..Max(Len(a), Len(b)) |-> Limb(a, i) + Limb(b, i)], 0))

\* a - b for a >= b
BigSub(a, b) ==
    Trim(Carry([i \in 1..Max(Len(a), Len(b)) |-> Limb(a, i) - Limb(b, i)], 0))

RECURSIVE Column(_, _, _, _)
Column(a, b, k, i) ==
    IF i = 0 THEN 0 ELSE a[i] * Limb(b, k + 1 - i) + Column(a, b, k, i - 1)

\* Schoolbook product; a holds at most four limbs, so a column stays below 2^31.
BigMul(a, b) ==
    Trim(Carry([k \in 1..(Len(a) + Len(b)) |-> Column(a, b, k, Len(a))], 0))

BigLess(a, b) ==
    \E i \in 1..Max(Len(a), Len(b)) :
        /\ Limb(a, i) < Limb(b, i)
        /\ \A j \in (i + 1)..Max(Len(a), Len(b)) : Limb(a, j) = Limb(b, j)

ShiftLeft(a, s) ==
    LET q == s \div LimbBits
        r == s % LimbBits
        hi == 2 ^ (LimbBits - r)
    IN  Trim([i \in 1..(Len(a) + q + 1) |->
                IF i <= q THEN 0
                ELSE (Limb(a, i - q) % hi) * (2 ^ r) + Limb(a, i - q - 1) \div hi])

ShiftRight(a, s) ==
    LET q == s \div LimbBits
        r == s % LimbBits
    IN  Trim([i \in 1..Len(a) |->
                Limb(a, i + q) \div (2 ^ r)
                + (Limb(a, i + q + 1) % (2 ^ r)) * (2 ^ (LimbBits - r))])

\* Bit i of a (bit 0 is the least significant).
Bit(a, i) == (Limb(a, i \div LimbBits + 1) \div (2 ^ (i % LimbBits))) % 2

\* Whether any of the bits 0..i-1 of a is set.
AnyBelow(a, i) ==
    \E k \in 1..Len(a) :
        \/ k - 1 < i \div LimbBits /\ a[k] # 0
        \/ k - 1 = i \div LimbBits /\ a[k] % (2 ^ (i % LimbBits)) # 0

\* Long division of a by a small positive integer d, from the top limb down.
RECURSIVE DivRec(_, _, _, _)
DivRec(a, d, i, rem) ==
    IF i = 0 THEN [q |-> <<>>, r |-> rem]
    ELSE LET t == rem * Base + a[i]
             rest == DivRec(a, d, i - 1, t % d)
         IN  [q |-> Append(rest.q, t \div d), r |-> rest.r]

\* ------------------------------------------------------------------------
\* Python float: neg (sign), m (53-bit significand, or <<>> for zero), e
\* (exponent); the value is (-1)^neg * m * 2^e.  The values of this program
\* stay far from overflow and from the subnormal range.
\* ------------------------------------------------------------------------

FZero == [neg |-> FALSE, m |-> <<>>, e |-> 0]

\* Round the exact value m * 2^e (plus a positive remainder below the last
\* bit of m when sticky) to the nearest float, ties to even.
RoundBig(neg, m, e, sticky) ==
    LET L == BitLen(m)
    IN  IF L = 0 THEN FZero
        ELSE IF L <= Precision
        THEN [neg |-> neg, m |-> ShiftLeft(m, Precision - L), e |-> e - (Precision - L)]
        ELSE LET s == L - Precision
                 q == ShiftRight(m, s)
                 up == /\ Bit(m, s - 1) = 1
                       /\ (AnyBelow(m, s - 1) \/ sticky \/ Bit(q, 0) = 1)
                 q2 == IF up THEN BigAdd(q, <<1>>) ELSE q
             IN  IF BitLen(q2) > Precision
                 THEN [neg |-> neg, m |-> ShiftRight(q2, 1), e |-> e + s + 1]
                 ELSE [neg |-> neg, m |-> q2, e |-> e + s]

\* int -> float conversion of a small natural number (exact).
FOfInt(n) == RoundBig(FALSE, BigOf(n), 0, FALSE)

\* Python's int / int (true division) of naturals a and b > 0: the correctly
\* rounded quotient.  Also the value of a decimal literal such as 0.6 = 6/10.
FDiv(a, b) ==
    IF a = 0 THEN FZero
    ELSE LET n == ShiftLeft(BigOf(a), DivScale)
             d == DivRec(n, b, Len(n), 0)
         IN  RoundBig(FALSE, Trim(d.q), -DivScale, d.r # 0)

FMul(x, y) ==
    IF x.m = <<>> \/ y.m = <<>> THEN FZero
    ELSE RoundBig(x.neg # y.neg, BigMul(x.m, y.m), x.e + y.e, FALSE)

FNeg(x) == IF x.m = <<>> THEN x ELSE [x EXCEPT !.neg = ~x.neg]

FAdd(x, y) ==
    IF x.m = <<>> THEN y
    ELSE IF y.m = <<>> THEN x
    ELSE LET e == IF x.e <= y.e THEN x.e ELSE y.e
             a == ShiftLeft(x.m, x.e - e)
             b == ShiftLeft(y.m, y.e - e)
         IN  IF x.neg = y.neg THEN RoundBig(x.neg, BigAdd(a, b), e, FALSE)
             ELSE IF a = b THEN FZero
             ELSE IF BigLess(a, b) THEN RoundBig(y.neg, BigSub(b, a), e, FALSE)
             ELSE RoundBig(x.neg, BigSub(a, b), e, FALSE)

FSub(x, y) == FAdd(x, FNeg(y))

\* Magnitude comparison of two normalised floats.
MagLess(x, y) ==
    IF y.m = <<>> THEN FALSE
    ELSE IF x.m = <<>> THEN TRUE
    ELSE x.e < y.e \/ (x.e = y.e /\ BigLess(x.m, y.m))

\* x < y
FLess(x, y) ==
    IF x.neg /\ ~y.neg THEN TRUE
    ELSE IF ~x.neg /\ y.neg THEN FALSE
    ELSE IF x.neg THEN MagLess(y, x)
    ELSE MagLess(x, y)

FLeq(x, y) == x = y \/ FLess(x, y)

\* Python's round(x) of a non-negative float: the nearest integer, ties to even.
FRound(x) ==
    IF x.m = <<>> THEN 0
    ELSE IF x.e >= 0 THEN BigToInt(ShiftLeft(x.m, x.e))
    ELSE LET s == -x.e
             q == ShiftRight(x.m, s)
             up == /\ Bit(x.m, s - 1) = 1
                   /\ (AnyBelow(x.m, s - 1) \/ Bit(q, 0) = 1)
         IN  BigToInt(q) + (IF up THEN 1 ELSE 0)

\* ------------------------------------------------------------------------
\* The data of the program
\* ------------------------------------------------------------------------

MaxDifficulty == 10

MaxCompletion == 100

Statuses == {"not_started", "in_progress", "done"}

MkTopic(id, title, difficulty, completion, status) ==
    [id |-> id, title |-> title, difficulty |-> difficulty,
     completion |-> completion, status |-> status]

MkSubject(id, name, color, topics) ==
    [id |-> id, name |-> name, color |-> color, topics |-> topics]

MathTopics ==
    << MkTopic(1, "Limits & Continuity", 6, 100, "done"),
       MkTopic(2, "Derivatives", 7, 100, "done"),
       MkTopic(3, "Integration Techniques", 9, 60, "in_progress"),
       MkTopic(4, "Sequences & Series", 8, 30, "in_progress"),
       MkTopic(5, "Multivariable Calculus", 10, 0, "not_started"),
       MkTopic(6, "Differential Equations", 9, 0, "not_started"),
       MkTopic(7, "Linear Algebra", 7, 0, "not_started") >>

CsTopics ==
    << MkTopic(101, "Big-O Notation", 4, 100, "done"),
       MkTopic(102, "Sorting Algorithms", 5, 100, "done"),
       MkTopic(103, "Binary Search Trees", 6, 75, "in_progress"),
       MkTopic(104, "Graph Traversal (BFS/DFS)", 7, 40, "in_progress"),
       MkTopic(105, "Dynamic Programming", 9, 10, "in_progress"),
       MkTopic(106, "Greedy Algorithms", 6, 0, "not_started"),
       MkTopic(107, "Heaps & Priority Queues", 5, 0, "not_started") >>

PhysicsTopics ==
    << MkTopic(201, "Kinematics", 4, 100, "done"),
       MkTopic(202, "Newton's Laws", 5, 100, "done"),
       MkTopic(203, "Work, Energy & Power", 6, 80, "in_progress"),
       MkTopic(204, "Momentum & Collisions", 6, 50, "in_progress"),
       MkTopic(205, "Rotational Motion", 8, 0, "not_started"),
       MkTopic(206, "Electrostatics", 8, 0, "not_started"),
       MkTopic(207, "Electromagnetic Waves", 9, 0, "not_started") >>

\* A Python dict is a sequence of key/value items in insertion order.
MkDict(math, cs, physics) ==
    << [key |-> "math",
        value |-> MkSubject("math", "Mathematics", "#4f46e5", math)],
       [key |-> "cs",
        value |-> MkSubject("cs", "Computer Science", "#0891b2", cs)],
       [key |-> "physics",
        value |-> MkSubject("physics", "Physics", "#059669", physics)] >>

\* Mutant of SampleSubjects: "Integration Techniques" marked done at 60 %.
SampleSubjectsSlip ==
    MkDict([MathTopics EXCEPT ![3].status = "done"], CsTopics, PhysicsTopics)

\* The module-level dict SUBJECTS as written in the source.
SampleSubjects == MkDict(MathTopics, CsTopics, PhysicsTopics)

\* dict.get(key): the value stored under key, or None.
None == [none |-> TRUE]

\* Mutant of DictGet: a default value in place of None.
DictGetDefault(dict, key) ==
    IF \E i \in 1..Len(dict) : dict[i].key = key
    THEN dict[CHOOSE i \in 1..Len(dict) : dict[i].key = key].value
    ELSE dict[1].value

DictGet(dict, key) ==
    IF \E i \in 1..Len(dict) : dict[i].key = key
    THEN dict[CHOOSE i \in 1..Len(dict) : dict[i].key = key].value
    ELSE None

DictKeys(dict) == {dict[i].key : i \in 1..Len(dict)}

\* dict.values(), in insertion order.
DictValues(dict) == [i \in 1..Len(dict) |-> dict[i].value]

\* Python's order on the subject names that occur (str <, by code point).
NameOrder == <<"Computer Science", "Mathematics", "Physics", "Subject">>

NameRank(name) == CHOOSE i \in 1..Len(NameOrder) : NameOrder[i] = name

\* ------------------------------------------------------------------------
\* Priority scoring
\* ------------------------------------------------------------------------

\* Mutant of priority_score: weights 0.6 and 0.6.
priority_score_weights(topic) ==
    LET remaining == FSub(FOfInt(1), FDiv(topic.completion, 100))
        difficulty_norm == FDiv(topic.difficulty, 10)
    IN  FMul(remaining, FAdd(FDiv(6, 10), FMul(FDiv(6, 10), difficulty_norm)))

\* Mutant of priority_score: completion // 100 (floor division).
priority_score_floor_completion(topic) ==
    LET remaining == FSub(FOfInt(1), FOfInt(topic.completion \div 100))
        difficulty_norm == FDiv(topic.difficulty, 10)
    IN  FMul(remaining, FAdd(FDiv(6, 10), FMul(FDiv(4, 10), difficulty_norm)))

\* Mutant of priority_score: difficulty // 10 (floor division).
priority_score_floor_difficulty(topic) ==
    LET remaining == FSub(FOfInt(1), FDiv(topic.completion, 100))
        difficulty_norm == FOfInt(topic.difficulty \div 10)
    IN  FMul(remaining, FAdd(FDiv(6, 10), FMul(FDiv(4, 10), difficulty_norm)))

priority_score(topic) ==
    LET remaining == FSub(FOfInt(1), FDiv(topic.completion, 100))
        difficulty_norm == FDiv(topic.difficulty, 10)
    IN  FMul(remaining, FAdd(FDiv(6, 10), FMul(FDiv(4, 10), difficulty_norm)))

\* priority_score reads two fields only; its values are computed once.
ScoreMemo ==
    [c \in 0..MaxCompletion |->
        [d \in 1..MaxDifficulty |->
            priority_score([completion |-> c, difficulty |-> d])]]

Priority(topic) == ScoreMemo[topic.completion][topic.difficulty]

RECURSIVE SumCompletion(_)
SumCompletion(topics) ==
    IF topics = <<>> THEN 0
    ELSE Head(topics).completion + SumCompletion(Tail(topics))

\* Mutant of subject_completion: int(mean + 0.5), which rounds halves up.
subject_completion_half_up(subject) ==
    LET topics == subject.topics
    IN  IF topics = <<>> THEN 0
        ELSE (2 * SumCompletion(topics) + Len(topics)) \div (2 * Len(topics))

subject_completion(subject) ==
    LET topics == subject.topics
    IN  IF topics = <<>> THEN 0
        ELSE FRound(FDiv(SumCompletion(topics), Len(topics)))

\* ------------------------------------------------------------------------
\* Routes
\* ------------------------------------------------------------------------

ByName(a, b) == NameRank(a.name) < NameRank(b.name)

\* Mutant of ByPriorityDesc: ascending sort, then reversed (ties swap).
ByPriorityDescReversed(a, b) == ~FLess(a.priority, b.priority)

ByPriorityDesc(a, b) == FLess(b.priority, a.priority)

\* Whether a sorts strictly before b under the sort's key and direction.
Before(order, a, b) ==
    IF order = "name" THEN ByName(a, b) ELSE ByPriorityDesc(a, b)

\* list.sort(key=..., reverse=...) is stable: each element goes behind every
\* earlier element it does not sort strictly before.
RECURSIVE InsertStable(_, _, _)
InsertStable(sorted, t, order) ==
    IF sorted = <<>> THEN <<t>>
    ELSE IF Before(order, t, Head(sorted)) THEN <<t>> \o sorted
    ELSE <<Head(sorted)>> \o InsertStable(Tail(sorted), t, order)

RECURSIVE StableSort(_, _)
StableSort(list, order) ==
    IF list = <<>> THEN <<>>
    ELSE InsertStable(StableSort(SubSeq(list, 1, Len(list) - 1), order),
                      list[Len(list)], order)

\* {**subj, "overall_completion": ..., "topic_count": ...}
Summary(subj) ==
    [id |-> subj.id, name |-> subj.name, color |-> subj.color,
     topics |-> subj.topics,
     overall_completion |-> subject_completion(subj),
     topic_count |-> Len(subj.topics)]

\* dashboard(): the new store and the response.
dashboard(store) ==
    LET values == DictValues(store)
        subjects == [i \in 1..Len(values) |-> Summary(values[i])]
    IN  [store |-> store,
         response |-> [route |-> "dashboard", code |-> 200,
                       template |-> "dashboard.html",
                       subjects |-> StableSort(subjects, "name")]]

ColumnLabels ==
    [not_started |-> "Not Started", in_progress |-> "In Progress", done |-> "Done"]

\* {**topic, "priority": priority_score(topic)}
WithPriority(topic) ==
    [id |-> topic.id, title |-> topic.title, difficulty |-> topic.difficulty,
     completion |-> topic.completion, status |-> topic.status,
     priority |-> Priority(topic)]

\* Mutant of FillColumns: the column is derived from completion.
RECURSIVE FillColumnsByCompletion(_, _)
FillColumnsByCompletion(columns, topics) ==
    IF topics = <<>> THEN columns
    ELSE LET topic == Head(topics)
             col_key == IF topic.completion = 0 THEN "not_started"
                        ELSE IF topic.completion = 100 THEN "done"
                        ELSE "in_progress"
         IN  FillColumnsByCompletion(
                 [columns EXCEPT ![col_key].topics = Append(@, WithPriority(topic))],
                 Tail(topics))

\* The loop over subj["topics"]: a topic is appended to the column named by
\* its status when that column exists, and skipped otherwise.
RECURSIVE FillColumns(_, _)
FillColumns(columns, topics) ==
    IF topics = <<>> THEN columns
    ELSE LET topic == Head(topics)
             col_key == topic.status
             filled ==
                 IF col_key \in DOMAIN columns
                 THEN [columns EXCEPT ![col_key].topics =
                           Append(@, WithPriority(topic))]
                 ELSE columns
         IN  FillColumns(filled, Tail(topics))

SortColumns(columns) ==
    [k \in DOMAIN columns |->
        [columns[k] EXCEPT !.topics = StableSort(@, "priority")]]

BuildColumns(subj) ==
    SortColumns(FillColumns(
        [k \in DOMAIN ColumnLabels |-> [label |-> ColumnLabels[k], topics |-> <<>>]],
        subj.topics))

\* Mutant of subject: topic["priority"] = ... written into the stored topic.
subject_in_place(store, subject_id) ==
    LET subj == DictGet(store, subject_id)
        i == CHOOSE i \in 1..Len(store) : store[i].key = subject_id
        marked == [j \in 1..Len(subj.topics) |-> WithPriority(subj.topics[j])]
    IN  IF subj = None
        THEN [store |-> store,
              response |-> [route |-> "subject", subject_id |-> subject_id,
                            code |-> 404]]
        ELSE [store |-> [store EXCEPT ![i].value.topics = marked],
              response |-> [route |-> "subject", subject_id |-> subject_id,
                            code |-> 200, template |-> "subject.html",
                            subject |-> [subj EXCEPT !.topics = marked],
                            columns |-> BuildColumns(subj),
                            overall_completion |-> subject_completion(subj)]]

\* subject(subject_id): the new store and the response.
subject(store, subject_id) ==
    LET subj == DictGet(store, subject_id)
    IN  IF subj = None
        THEN [store |-> store,
              response |-> [route |-> "subject", subject_id |-> subject_id,
                            code |-> 404]]
        ELSE [store |-> store,
              response |-> [route |-> "subject", subject_id |-> subject_id,
                            code |-> 200, template |-> "subject.html",
                            subject |-> subj,
                            columns |-> BuildColumns(subj),
                            overall_completion |-> subject_completion(subj)]]

\* ------------------------------------------------------------------------
\* State machine
\* ------------------------------------------------------------------------

VARIABLES SUBJECTS, history, call

vars == <<SUBJECTS, history, call>>

MaxRequests == 3

\* Subject ids a client may ask for that are not keys of SUBJECTS.
UnknownIds == {"bio", "MATH"}

NoCall == [fn |-> "none", args |-> <<>>, ret |-> <<>>]

Init ==
    /\ SUBJECTS = SampleSubjects
    /\ history = <<>>
    /\ call = NoCall

Dashboard ==
    /\ Len(history) < MaxRequests
    /\ LET r == dashboard(SUBJECTS)
       IN  /\ SUBJECTS' = r.store
           /\ history' = Append(history, r.response)
    /\ UNCHANGED call

SubjectRequest(subject_id) ==
    /\ Len(history) < MaxRequests
    /\ LET r == subject(SUBJECTS, subject_id)
       IN  /\ SUBJECTS' = r.store
           /\ history' = Append(history, r.response)
    /\ UNCHANGED call

Next ==
    \/ Dashboard
    \/ \E subject_id \in DictKeys(SUBJECTS) \cup UnknownIds :
           SubjectRequest(subject_id)

Spec == Init /\ [][Next]_vars

\* ------------------------------------------------------------------------
\* The board functions on arbitrary subjects: one subject whose topics are
\* drawn from sample values, and one request served.
\* ------------------------------------------------------------------------

MaxTopics == 3

\* Completion values of the unfinished topics; a done topic is at 100 %.
CompletionSamples == {0, 20, 25}

DifficultySamples == {1, 5}

TopicShapes(statuses) ==
    [difficulty : DifficultySamples, completion : CompletionSamples,
     status : statuses \ {"done"}]
    \cup
    [difficulty : DifficultySamples, completion : {MaxCompletion},
     status : statuses \cap {"done"}]

StoreOf(shapes) ==
    << [key |-> "s",
        value |-> MkSubject("s", "Subject", "#000000",
            [i \in 1..Len(shapes) |->
                MkTopic(i, "Topic", shapes[i].difficulty, shapes[i].completion,
                        shapes[i].status)])] >>

Stores(statuses) ==
    {StoreOf(shapes) :
        shapes \in UNION {[1..n -> TopicShapes(statuses)] : n \in 0..MaxTopics}}

NextOnce == history = <<>> /\ Next

InitBoard ==
    /\ SUBJECTS \in {SampleSubjects} \cup Stores(Statuses)
    /\ history = <<>>
    /\ call = NoCall

SpecBoard == InitBoard /\ [][NextOnce]_vars

\* Topics whose status may be a string outside the three known ones.
RawStatuses == Statuses \cup {"archived"}

InitRaw ==
    /\ SUBJECTS \in Stores(RawStatuses)
    /\ history = <<>>
    /\ call = NoCall

SpecRaw == InitRaw /\ [][NextOnce]_vars

\* ------------------------------------------------------------------------
\* priority_score on its whole domain: two topics that share the completion
\* or the difficulty, and one evaluation of both.
\* ------------------------------------------------------------------------

ScoreArg(c, d) == [completion |-> c, difficulty |-> d]

InitScore ==
    /\ SUBJECTS = SampleSubjects
    /\ history = <<>>
    /\ \E c1 \in 0..MaxCompletion, c2 \in 0..MaxCompletion,
          d1 \in 1..MaxDifficulty, d2 \in 1..MaxDifficulty :
           /\ c1 = c2 \/ d1 = d2
           /\ call = [fn |-> "priority_score",
                      args |-> <<ScoreArg(c1, d1), ScoreArg(c2, d2)>>,
                      ret |-> <<>>]

ScoreCall ==
    /\ call.fn = "priority_score"
    /\ call.ret = <<>>
    /\ call' = [call EXCEPT !.ret = <<Priority(call.args[1]), Priority(call.args[2])>>]
    /\ UNCHANGED <<SUBJECTS, history>>

SpecScore == InitScore /\ [][ScoreCall]_vars

\* ------------------------------------------------------------------------
\* Properties
\* ------------------------------------------------------------------------

Responses == {history[i] : i \in 1..Len(history)}

\* The responses that carry a board.
Boards == {r \in Responses : r.route = "subject" /\ r.code = 200}

Scored == call.fn = "priority_score" /\ call.ret # <<>>

FOne == FOfInt(1)

\* C1: for every difficulty in [1,10] and completion in [0,100] the value of
\* priority_score lies in [0,1], and it is exactly 0 when completion is 100.
C1_ScoreInUnitInterval ==
    Scored =>
        \A i \in 1..2 :
            /\ FLeq(FZero, call.ret[i])
            /\ FLeq(call.ret[i], FOne)
            /\ call.args[i].completion = 100 => call.ret[i] = FZero

C1_Witness ==
    /\ Scored
    /\ call.args[1] = ScoreArg(100, 10) /\ call.ret[1] = FZero
    /\ call.args[2] = ScoreArg(0, 10) /\ call.ret[2] = FOne

\* C2: with the difficulty fixed, a smaller completion gives a strictly
\* greater priority_score.
C2_DecreasingInCompletion ==
    (/\ Scored
     /\ call.args[1].difficulty = call.args[2].difficulty
     /\ call.args[1].completion < call.args[2].completion)
    => FLess(call.ret[2], call.ret[1])

C2_Witness ==
    /\ Scored
    /\ call.args[1] = ScoreArg(98, 1)
    /\ call.args[2] = ScoreArg(99, 1)
    /\ FLess(call.ret[2], call.ret[1])

\* C3: with the completion fixed below 100, a smaller difficulty gives a
\* strictly smaller priority_score.
C3_IncreasingInDifficulty ==
    (/\ Scored
     /\ call.args[1].completion = call.args[2].completion
     /\ call.args[1].completion < 100
     /\ call.args[1].difficulty < call.args[2].difficulty)
    => FLess(call.ret[1], call.ret[2])

C3_Witness ==
    /\ Scored
    /\ call.args[1] = ScoreArg(99, 9)
    /\ call.args[2] = ScoreArg(99, 10)
    /\ FLess(call.ret[1], call.ret[2])

Abs(n) == IF n < 0 THEN -n ELSE n

\* v is the mean of the topics' completions rounded to the nearest integer,
\* a mean ending in .5 going to the even neighbour; 0 without topics.
IsRoundedMean(v, topics) ==
    LET n == Len(topics)
        total == SumCompletion(topics)
    IN  IF n = 0 THEN v = 0
        ELSE /\ 2 * Abs(n * v - total) <= n
             /\ 2 * Abs(n * v - total) = n => v % 2 = 0

Completions(topics) == [i \in 1..Len(topics) |-> topics[i].completion]

\* C4: subject_completion is 0 for a subject without topics and otherwise
\* the mean completion rounded to the nearest integer, halves to the even
\* neighbour; the math sample gives 41.
C4_SubjectCompletion ==
    /\ \A r \in Boards :
        /\ IsRoundedMean(r.overall_completion, r.subject.topics)
        /\ Completions(r.subject.topics) = <<100, 100, 60, 30, 0, 0, 0>>
               => r.overall_completion = 41
    /\ \A r \in Responses :
        r.route = "dashboard" =>
            \A i \in 1..Len(r.subjects) :
                IsRoundedMean(r.subjects[i].overall_completion, r.subjects[i].topics)

\* A mean of 12.5 has been rounded to 12.
C4_Witness ==
    \E r \in Boards :
        /\ Completions(r.subject.topics) = <<0, 25>>
        /\ r.overall_completion = 12

ColumnKeys == {"not_started", "in_progress", "done"}

\* The status-to-column table.
ColumnOf(status) ==
    CASE status = "not_started" -> "not_started"
      [] status = "in_progress" -> "in_progress"
      [] status = "done" -> "done"
      [] OTHER -> "none"

\* How often the topic with this id occurs in column k of board r.
Occurrences(r, k, id) ==
    Cardinality({j \in 1..Len(r.columns[k].topics) : r.columns[k].topics[j].id = id})

\* C5: a board has exactly the three column keys, every topic of the subject
\* is in the column of its status and in no other, once, and the column
\* sizes add up to the number of topics.
C5_BoardPartition ==
    \A r \in Boards :
        /\ DOMAIN r.columns = ColumnKeys
        /\ \A i \in 1..Len(r.subject.topics) :
               \A k \in ColumnKeys :
                   Occurrences(r, k, r.subject.topics[i].id)
                       = IF k = ColumnOf(r.subject.topics[i].status) THEN 1 ELSE 0
        /\ Len(r.columns["not_started"].topics) + Len(r.columns["in_progress"].topics)
               + Len(r.columns["done"].topics) = Len(r.subject.topics)

\* A board with an empty column beside filled ones.
C5_Witness ==
    \E r \in Boards :
        /\ Len(r.columns["not_started"].topics) = 2
        /\ Len(r.columns["in_progress"].topics) = 1
        /\ r.columns["done"].topics = <<>>

\* C6: a topic whose status names no column is put in the not_started column.
C6_UnknownStatusNotStarted ==
    \A r \in Boards :
        \A i \in 1..Len(r.subject.topics) :
            r.subject.topics[i].status \notin ColumnKeys
                => Occurrences(r, "not_started", r.subject.topics[i].id) = 1

\* The position of the topic with this id in the subject's topic list.
PosOf(r, id) == CHOOSE i \in 1..Len(r.subject.topics) : r.subject.topics[i].id = id

\* C7: in every column no topic stands before a topic of strictly higher
\* priority, and topics of equal priority stand in the order of the
\* subject's topic list.
C7_ColumnsSortedStable ==
    \A r \in Boards :
        \A k \in DOMAIN r.columns :
            LET col == r.columns[k].topics
            IN  \A i \in 1..Len(col) : \A j \in (i + 1)..Len(col) :
                    /\ ~FLess(col[i].priority, col[j].priority)
                    /\ col[i].priority = col[j].priority
                           => PosOf(r, col[i].id) < PosOf(r, col[j].id)

\* A column of three that was reordered and that holds a tie.
C7_Witness ==
    \E r \in Boards :
        \E k \in DOMAIN r.columns :
            LET col == r.columns[k].topics
            IN  /\ Len(col) = 3
                /\ PosOf(r, col[1].id) > PosOf(r, col[2].id)
                /\ FLess(col[2].priority, col[1].priority)
                /\ col[2].priority = col[3].priority

\* C8: a board request for an id that is no key of SUBJECTS ends in 404 and
\* carries no board; a request for an existing id ends in 200 with its board.
C8_NotFound ==
    \A r \in Responses :
        r.route = "subject" =>
            IF r.subject_id \in DictKeys(SUBJECTS)
            THEN r.code = 200 /\ "columns" \in DOMAIN r
            ELSE r.code = 404 /\ DOMAIN r = {"route", "subject_id", "code"}

C8_Witness ==
    /\ Len(history) = 2
    /\ history[1].route = "subject" /\ history[1].subject_id = "bio"
    /\ history[1].code = 404
    /\ history[2].route = "subject" /\ history[2].subject_id = "math"
    /\ history[2].code = 200

SameRequest(r1, r2) ==
    /\ r1.route = r2.route
    /\ r1.route = "subject" => r1.subject_id = r2.subject_id

\* C9: after any sequence of requests the stored subjects and topics are
\* what they were at the start, and equal requests got equal responses.
C9_NoMutation ==
    /\ SUBJECTS = SampleSubjects
    /\ \A i \in 1..Len(history) : \A j \in 1..Len(history) :
           SameRequest(history[i], history[j]) => history[i] = history[j]

\* A board request, a not-found request and the first board request again.
C9_Witness ==
    /\ Len(history) = 3
    /\ history[1].route = "subject" /\ history[1].code = 200
    /\ history[2].route = "subject" /\ history[2].code = 404
    /\ history[3] = history[1]

StoredTopics ==
    UNION {{SUBJECTS[i].value.topics[j] : j \in 1..Len(SUBJECTS[i].value.topics)} :
              i \in 1..Len(SUBJECTS)}

\* C10: every stored topic has its difficulty in [1,10], its completion in
\* [0,100], one of the three statuses, and completion 100 when it is done.
C10_TopicsWellFormed ==
    \A t \in StoredTopics :
        /\ t.difficulty \in 1..10
        /\ t.completion \in 0..100
        /\ t.status \in Statuses
        /\ t.status = "done" => t.completion = 100

C10_Witness ==
    /\ Len(history) = MaxRequests
    /\ \E t \in StoredTopics : t.status = "done" /\ t.completion = 100
    /\ \E t \in StoredTopics : t.status = "in_progress" /\ t.completion = 60

====
